---- MODULE Spec2Model ----
(***************************************************************************)
(* Model of src/main.py: a run of main() reads the cursor file, fetches    *)
(* and parses the profile page, sorts and filters the extracted posts      *)
(* against the cursor, sends one LINE notification per new post and then   *)
(* overwrites the cursor file.                                             *)
(*                                                                         *)
(* Python strings are sequences of code points, so that the comparison     *)
(* of ids, str.strip() and str.startswith() are computed as Python         *)
(* computes them.  The cursor file holds bytes: the UTF-8 encoding of the   *)
(* text written to it.  Values that are not strings are written as         *)
(* one-element sequences holding a negative number, which no string        *)
(* contains: None (Python's None), NoElem (select_one found no element),   *)
(* NoFile (the cursor file does not exist), UnicodeDecodeError (the         *)
(* exception of a read whose bytes are not UTF-8) and UnicodeEncodeError   *)
(* (the exception of a write whose text holds a lone surrogate).           *)
(***************************************************************************)
EXTENDS Integers, Sequences, FiniteSets, TLC

VARIABLES
    last_post_file,     \* content of LAST_POST_FILE, or NoFile
    LINE_CHANNEL_TOKEN, \* os.getenv("LINE_CHANNEL_TOKEN"): None or a string
    LINE_USER_ID,       \* os.getenv("LINE_USER_ID"): None or a string
    pc,                 \* per process: position of the run inside main()
    last_post_id,       \* per process: main's local last_post_id
    posts,              \* per process: main's local posts
    new_posts,          \* per process: main's local new_posts
    newest_post_id,     \* per process: main's local newest_post_id
    results,            \* per process: return values of the sends made so far
    requests,           \* per process: outbound POSTs made in this run
    reads,              \* per process: calls of get_last_processed_id in this run
    saves,              \* per process: calls of save_last_processed_id in this run
    file_at_start,      \* per process: the cursor file when the run began
    sends_at_save,      \* per process: sends completed when the save was called
    fetched,            \* per process: the response and the clock of the fetch
    reading,            \* per process: the f.read() of line 31 under way
    runs,               \* number of runs of main() started so far
    attempted           \* ids for which some run has made a delivery attempt

vars == << last_post_file, LINE_CHANNEL_TOKEN, LINE_USER_ID, pc, last_post_id,
           posts, new_posts, newest_post_id, results, requests, reads, saves,
           file_at_start, sends_at_save, fetched, reading, runs, attempted >>

-----------------------------------------------------------------------------
(* Bounds of the model. *)

MaxRuns == 2        \* runs of main() in one behaviour
MaxPosts == 2       \* post containers in one fetched page

-----------------------------------------------------------------------------
(* Values that are not strings. *)

None == << -1 >>
NoElem == << -2 >>
NoFile == << -3 >>
UnicodeDecodeError == << -4 >>
UnicodeEncodeError == << -5 >>

-----------------------------------------------------------------------------
(* Python string operations used by the program. *)

\* a < b for two str values: code point by code point, a proper prefix is less.
RECURSIVE StrLess(_, _)
StrLess(a, b) ==
    IF b = << >> THEN FALSE
    ELSE IF a = << >> THEN TRUE
    ELSE IF Head(a) # Head(b) THEN Head(a) < Head(b)
    ELSE StrLess(Tail(a), Tail(b))

\* a > b, as in "post_id > last_post_id".
StrGreater(a, b) == StrLess(b, a)

StrLeq(a, b) == ~ StrLess(b, a)

\* str.isspace() of one character: the white space str.strip() removes,
\* ASCII and beyond (U+0085, U+00A0, U+1680, U+2000-U+200A, U+2028, U+2029,
\* U+202F, U+205F, U+3000).
IsSpace(c) ==
    c \in {9, 10, 11, 12, 13, 28, 29, 30, 31, 32, 133, 160, 5760}
              \cup (8192..8202) \cup {8232, 8233, 8239, 8287, 12288}

RECURSIVE LStrip(_)
LStrip(s) ==
    IF s # << >> /\ IsSpace(Head(s)) THEN LStrip(Tail(s)) ELSE s

RECURSIVE RStrip(_)
RStrip(s) ==
    IF s # << >> /\ IsSpace(s[Len(s)]) THEN RStrip(SubSeq(s, 1, Len(s) - 1)) ELSE s

\* str.strip()
Strip(s) == RStrip(LStrip(s))

\* s.startswith(prefix)
StartsWith(s, prefix) ==
    /\ Len(s) >= Len(prefix)
    /\ SubSeq(s, 1, Len(prefix)) = prefix

\* str(n) of a non-negative integer, as the f-string formats it.
RECURSIVE Decimal(_)
Decimal(n) ==
    IF n < 10 THEN << 48 + n >> ELSE Decimal(n \div 10) \o << 48 + (n % 10) >>

\* "not x" for x a string or None.
Falsy(x) == x = None \/ x = << >>

-----------------------------------------------------------------------------
(* Program constants. *)

\* "https://truthsocial.com/@realDonaldTrump"
TRUTH_SOCIAL_URL ==
    << 104, 116, 116, 112, 115, 58, 47, 47, 116, 114, 117, 116, 104, 115, 111,
       99, 105, 97, 108, 46, 99, 111, 109, 47, 64, 114, 101, 97, 108, 68, 111,
       110, 97, 108, 100, 84, 114, 117, 109, 112 >>

\* "https://truthsocial.com"
SiteOrigin ==
    << 104, 116, 116, 112, 115, 58, 47, 47, 116, 114, 117, 116, 104, 115, 111,
       99, 105, 97, 108, 46, 99, 111, 109 >>

\* "http"
HttpPrefix == << 104, 116, 116, 112 >>

\* "unknown-"
UnknownPrefix == << 117, 110, 107, 110, 111, 119, 110, 45 >>

\* the six characters of the content placeholder
ContentPlaceholder == << 20839, 23481, 28961, 27861, 35299, 26512 >>

-----------------------------------------------------------------------------
(* The cursor file. *)

\* the code points U+D800-U+DFFF, which UTF-8 does not encode
IsSurrogate(c) == c \in 55296..57343

\* the UTF-8 bytes of one code point
Utf8(c) ==
    IF IsSurrogate(c) THEN UnicodeEncodeError
    ELSE IF c < 128 THEN << c >>
    ELSE IF c < 2048 THEN << 192 + (c \div 64), 128 + (c % 64) >>
    ELSE IF c < 65536
         THEN << 224 + (c \div 4096), 128 + ((c \div 64) % 64), 128 + (c % 64) >>
         ELSE << 240 + (c \div 262144), 128 + ((c \div 4096) % 64),
                 128 + ((c \div 64) % 64), 128 + (c % 64) >>

\* text.encode("utf-8"): what a text-mode write puts into the file, or
\* UnicodeEncodeError when the text holds a surrogate
RECURSIVE Encode(_)
Encode(text) ==
    IF text = << >> THEN << >>
    ELSE LET rest == Encode(Tail(text))
         IN IF IsSurrogate(Head(text)) \/ rest = UnicodeEncodeError
            THEN UnicodeEncodeError
            ELSE Utf8(Head(text)) \o rest

\* the length of the UTF-8 sequence that lead byte b begins, 0 when b cannot
\* begin one
Utf8Width(b) ==
    IF b < 128 THEN 1
    ELSE IF b \in 194..223 THEN 2
    ELSE IF b \in 224..239 THEN 3
    ELSE IF b \in 240..244 THEN 4
    ELSE 0

\* the bytes that may follow lead byte b (no overlong form, no surrogate,
\* nothing above U+10FFFF)
SecondBytes(b) ==
    IF b = 224 THEN 160..191
    ELSE IF b = 237 THEN 128..159
    ELSE IF b = 240 THEN 144..191
    ELSE IF b = 244 THEN 128..143
    ELSE 128..191

\* the code point of a well-formed UTF-8 sequence
CodePoint(bs) ==
    IF Len(bs) = 1 THEN bs[1]
    ELSE IF Len(bs) = 2 THEN (bs[1] - 192) * 64 + (bs[2] - 128)
    ELSE IF Len(bs) = 3
         THEN (bs[1] - 224) * 4096 + (bs[2] - 128) * 64 + (bs[3] - 128)
         ELSE (bs[1] - 240) * 262144 + (bs[2] - 128) * 4096
                 + (bs[3] - 128) * 64 + (bs[4] - 128)

\* bytes.decode("utf-8"): the text, or UnicodeDecodeError
RECURSIVE Decode(_)
Decode(bytes) ==
    IF bytes = << >> THEN << >>
    ELSE LET w == Utf8Width(Head(bytes))
         IN IF \/ w = 0
               \/ Len(bytes) < w
               \/ (w >= 2 /\ bytes[2] \notin SecondBytes(Head(bytes)))
               \/ \E k \in 3..w : bytes[k] \notin 128..191
            THEN UnicodeDecodeError
            ELSE LET rest == Decode(SubSeq(bytes, w + 1, Len(bytes)))
                 IN IF rest = UnicodeDecodeError THEN UnicodeDecodeError
                    ELSE << CodePoint(SubSeq(bytes, 1, w)) >> \o rest

\* what a text-mode read makes of the line ends: "\r\n" and "\r" become "\n"
RECURSIVE UniversalNewlines(_)
UniversalNewlines(text) ==
    IF text = << >> THEN << >>
    ELSE IF Head(text) = 13
         THEN << 10 >> \o UniversalNewlines(
                  IF Len(text) >= 2 /\ text[2] = 10
                  THEN SubSeq(text, 3, Len(text)) ELSE Tail(text))
         ELSE << Head(text) >> \o UniversalNewlines(Tail(text))

\* get_last_processed_id(): "" when the file is absent, else the text of the
\* file, read in text mode and stripped; bytes that are not UTF-8 raise
\* UnicodeDecodeError, which the except of line 32 does not catch.
get_last_processed_id(file) ==
    IF file = NoFile THEN << >>
    ELSE LET text == Decode(file)
         IN IF text = UnicodeDecodeError THEN UnicodeDecodeError
            ELSE Strip(UniversalNewlines(text))

\* open(LAST_POST_FILE, "w"): the file exists and is empty.
OpenForWrite(file) == << >>

\* bytes written from offset 0 over what the file holds (nothing, unless
\* another writer came in between)
WriteBytes(file, bytes) ==
    bytes \o SubSeq(file, Len(bytes) + 1, Len(file))

\* f.write(post_id) and close: the UTF-8 bytes of post_id reach the file;
\* when post_id cannot be encoded the write raises and the file stays as it
\* is.
WriteText(file, post_id) ==
    IF Encode(post_id) = UnicodeEncodeError THEN file
    ELSE WriteBytes(file, Encode(post_id))

\* save_last_processed_id(post_id) run to its end.
save_last_processed_id(file, post_id) == WriteText(OpenForWrite(file), post_id)

\* What an interrupted or failed save can leave behind: no byte at all (the
\* process stopped between the open of line 38 and the write of line 39), or
\* any proper prefix of the bytes, which may end inside a character.
PartialWrites(post_id) ==
    { << >> } \cup
    ( IF Encode(post_id) = UnicodeEncodeError THEN { }
      ELSE { SubSeq(Encode(post_id), 1, n) : n \in 0..(Len(Encode(post_id)) - 1) } )

\* the size of the buffer of f.read() for a file found empty, and the least
\* by which a full buffer grows
SMALLCHUNK == 8192

\* reading while no f.read() is under way
NoRead == [ bufsize |-> 0, buffer |-> << >> ]

\* The buffer f.read() allocates when it begins, at offset 0: one byte more
\* than the size the file has at that moment, SMALLCHUNK for an empty file.
FirstBufsize(file) ==
    IF Len(file) > 0 THEN Len(file) + 1 ELSE SMALLCHUNK

\* the size a buffer that is full with currentsize bytes is grown to
new_buffersize(currentsize) ==
    LET addend == IF currentsize > 65536
                  THEN currentsize \div 8 ELSE 256 + currentsize
    IN currentsize + (IF addend < SMALLCHUNK THEN SMALLCHUNK ELSE addend)

\* the size of the buffer at a read() call: a full buffer is grown first
Bufsize(bufsize, buffer) ==
    IF Len(buffer) >= bufsize THEN new_buffersize(Len(buffer)) ELSE bufsize

\* The bytes one read() call of f.read() returns when buffer has been read so
\* far and the buffer is of bufsize bytes: what the file holds from the
\* offset Len(buffer) on, at most what the buffer still takes.
ReadCall(file, bufsize, buffer) ==
    SubSeq(file, Len(buffer) + 1,
           IF Len(file) < bufsize THEN Len(file) ELSE bufsize)

-----------------------------------------------------------------------------
(* get_trump_posts: the fetch and the extraction.                          *)
(*                                                                         *)
(* A response is [raised, status, containers]: raised when requests.get    *)
(* or the parser raises, else the status code and the post containers of   *)
(* the page in document order.  A container is what the four select_one    *)
(* calls find in it:                                                       *)
(*   data_id  the data-id of the first descendant carrying one, or NoElem  *)
(*   own_id   the container's own id attribute, or None                    *)
(*   content  the text of the content element, or NoElem                   *)
(*   time     the datetime attribute of the time element, None when the    *)
(*            element has no such attribute, NoElem without element        *)
(*   link     the href of the link element, None when the element has no   *)
(*            href, NoElem without element                                 *)
(* now is [epoch, iso]: int(time.time()) of line 66 and                    *)
(* datetime.now().isoformat() of line 74, read while the container is      *)
(* extracted; nows holds one such pair for each container of the page.     *)
(***************************************************************************)

\* lines 62-66
ExtractId(c, now) ==
    IF c.data_id # NoElem THEN c.data_id
    ELSE IF c.own_id # None THEN c.own_id
    ELSE UnknownPrefix \o Decimal(now.epoch)

\* lines 69-70
ExtractContent(c) ==
    IF c.content # NoElem THEN Strip(c.content) ELSE ContentPlaceholder

\* lines 73-74
ExtractTime(c, now) ==
    IF c.time # NoElem THEN c.time ELSE now.iso

\* lines 77-78, before the startswith test
ExtractLink(c) ==
    IF c.link # NoElem THEN c.link ELSE TRUTH_SOCIAL_URL

\* line 79 raises AttributeError when link is None; the except of line 88
\* catches it and the container is skipped.
ExtractionRaises(c) == ExtractLink(c) = None

\* lines 79-80
AbsoluteLink(link) ==
    IF StartsWith(link, HttpPrefix) THEN link ELSE SiteOrigin \o link

\* lines 82-87: the record appended for a container whose extraction does
\* not raise.
ExtractPost(c, now) ==
    [ id        |-> ExtractId(c, now),
      content   |-> ExtractContent(c),
      timestamp |-> ExtractTime(c, now),
      link      |-> AbsoluteLink(ExtractLink(c)) ]

\* Mutant of ExtractAll: without the try of line 60 an exception in one
\* container reaches the except of line 92, and nothing is returned.
ExtractAllOrNothing(cs, nows) ==
    IF \E k \in 1..Len(cs) : ExtractionRaises(cs[k]) THEN << >>
    ELSE [ k \in 1..Len(cs) |-> ExtractPost(cs[k], nows[k]) ]

\* lines 58-91: the loop over the containers.
RECURSIVE ExtractAll(_, _)
ExtractAll(cs, nows) ==
    IF cs = << >> THEN << >>
    ELSE IF ExtractionRaises(Head(cs)) THEN ExtractAll(Tail(cs), Tail(nows))
    ELSE << ExtractPost(Head(cs), Head(nows)) >> \o ExtractAll(Tail(cs), Tail(nows))

\* line 49: the status test of the fetch.
FetchOk(status) == status = 200

\* get_trump_posts()
get_trump_posts(response, nows) ==
    IF response.raised THEN << >>
    ELSE IF ~ FetchOk(response.status) THEN << >>
    ELSE ExtractAll(response.containers, nows)

-----------------------------------------------------------------------------
(* send_line_notification *)

\* Mutant of ConfigComplete: the user id is not tested.
ConfigCompleteTokenOnly(token, user) == ~ Falsy(token)

\* line 98: the configuration test.
ConfigComplete(token, user) == ~ (Falsy(token) \/ Falsy(user))

\* A send makes an outbound POST exactly when the configuration is complete.
SendsRequest(token, user) == ConfigComplete(token, user)

\* lines 117-127: the value returned for the outcome of the POST, which is a
\* status code, or raised.
SendResult(outcome) ==
    IF outcome.raised THEN FALSE ELSE outcome.status = 200

\* send_line_notification(message), for the outcome the transport gives.
send_line_notification(token, user, outcome) ==
    IF ~ ConfigComplete(token, user) THEN FALSE ELSE SendResult(outcome)

-----------------------------------------------------------------------------
(* main: sorting and filtering *)

\* line 146 raises TypeError when a key that is None is compared: with two
\* posts or more, when any timestamp is None.
SortRaises(ps) ==
    /\ Len(ps) >= 2
    /\ \E k \in 1..Len(ps) : ps[k].timestamp = None

\* Mutant of InsertByTimestamp: p is inserted before the elements of equal
\* key, which reverses the records of equal timestamp.
RECURSIVE InsertBeforeEqual(_, _)
InsertBeforeEqual(sorted, p) ==
    IF sorted = << >> THEN << p >>
    ELSE IF StrLeq(p.timestamp, Head(sorted).timestamp)
         THEN << p >> \o sorted
         ELSE << Head(sorted) >> \o InsertBeforeEqual(Tail(sorted), p)

\* Insertion of p after every element whose key is not greater (stable).
RECURSIVE InsertByTimestamp(_, _)
InsertByTimestamp(sorted, p) ==
    IF sorted = << >> THEN << p >>
    ELSE IF StrLess(p.timestamp, Head(sorted).timestamp)
         THEN << p >> \o sorted
         ELSE << Head(sorted) >> \o InsertByTimestamp(Tail(sorted), p)

RECURSIVE SortFrom(_, _)
SortFrom(sorted, rest) ==
    IF rest = << >> THEN sorted
    ELSE SortFrom(InsertByTimestamp(sorted, Head(rest)), Tail(rest))

\* line 146: posts.sort(key=timestamp), a stable ascending sort.
SortByTimestamp(ps) == SortFrom(<< >>, ps)

\* Mutant of IsNew: >= in place of >.
IsNewOrEqual(cursor, post_id) == Falsy(cursor) \/ StrLeq(cursor, post_id)

\* Mutant of IsNew: the test of the empty cursor is left out.
IsNewWithoutBootstrap(cursor, post_id) == StrGreater(post_id, cursor)

\* line 156: the test that classifies a post as new.
IsNew(cursor, post_id) == Falsy(cursor) \/ StrGreater(post_id, cursor)

\* Mutant of Advances: < in place of >.
AdvancesOnLess(newest, post_id) == Falsy(newest) \/ StrLess(post_id, newest)

\* line 158: the test that advances newest_post_id.
Advances(newest, post_id) == Falsy(newest) \/ StrGreater(post_id, newest)

\* lines 152-159: the loop, from the state [new, newest] it has reached.
RECURSIVE FilterLoop(_, _, _)
FilterLoop(cursor, ps, acc) ==
    IF ps = << >> THEN acc
    ELSE LET post_id == Head(ps).id
             isnew == IsNew(cursor, post_id)
         IN FilterLoop(cursor, Tail(ps),
                [ new    |-> IF isnew THEN Append(acc.new, Head(ps)) ELSE acc.new,
                  newest |-> IF isnew /\ Advances(acc.newest, post_id)
                             THEN post_id ELSE acc.newest ])

\* lines 149-159: new_posts and newest_post_id for a cursor and sorted posts.
Filter(cursor, ps) == FilterLoop(cursor, ps, [ new |-> << >>, newest |-> cursor ])

\* lines 139-141: where main() goes after get_trump_posts returned.
AfterFetch(got) == IF got = << >> THEN "done" ELSE "sort"

\* Mutant of AfterFilter: the save is made outside the test of new_posts.
AfterFilterAlwaysSaves(new) == IF new # << >> THEN "deliver" ELSE "save"

\* Mutant of AfterFilter: the delivery loop is entered without the test of
\* new_posts.
AfterFilterAlwaysDelivers(new) == "deliver"

\* lines 162 and 173: where main() goes after the filter loop.
AfterFilter(new) == IF new # << >> THEN "deliver" ELSE "done"

\* Mutant of AfterSend: the loop is left at the first send that fails.
AfterSendStopsOnFailure(k, n, ok) == IF k = n \/ ~ ok THEN "save" ELSE "deliver"

\* Mutant of AfterSend: the save is made inside the loop, after each send.
AfterSendSavesEach(k, n, ok) == "save"

\* Mutant of AfterSend: a failed send is not counted as done, the loop stays
\* on it.
AfterSendWaitsForSuccess(k, n, ok) == IF k = n /\ ok THEN "save" ELSE "deliver"

\* lines 165-171: where main() goes after send k of n returned ok: to the
\* next post of the loop, and after the last one to the save.
AfterSend(k, n, ok) == IF k = n THEN "save" ELSE "deliver"

-----------------------------------------------------------------------------
(* Inputs of a run: what the environment can hand to the program. *)

Procs == {1, 2}

\* ids found on a page: "", "1 " and "2"
RunIds == { << >>, << 49, 32 >>, << 50 >> }

\* datetime attributes: "1" and "2", or None for a time element without one
RunTimes == { None, << 49 >>, << 50 >> }

\* containers of a page: an id element with each id and each datetime; one
\* identified by its own id attribute, without content element; one whose
\* link element has no href
RunContainers ==
    { [ data_id |-> i, own_id |-> None, content |-> << 104 >>,
        time |-> t, link |-> HttpPrefix ] : i \in RunIds, t \in RunTimes }
    \cup
    { [ data_id |-> NoElem, own_id |-> << 50 >>, content |-> NoElem,
        time |-> << 50 >>, link |-> HttpPrefix ],
      [ data_id |-> << 50 >>, own_id |-> None, content |-> << 104 >>,
        time |-> << 49 >>, link |-> None ] }

SeqsUpTo(S, n) == UNION { [1..k -> S] : k \in 0..n }

\* fetched before the run has made its request: no response, no containers
NoFetch ==
    [ response |-> [ raised |-> FALSE, status |-> 0, containers |-> << >> ],
      nows     |-> << >> ]

\* status codes of the fetch: 200 OK, 203 Non-Authoritative Information (a
\* page served through a transforming proxy), 404 Not Found
RunStatuses == { 200, 203, 404 }

\* the fetch raises, or returns a status and a page
RunResponses ==
    { [ raised |-> TRUE, status |-> 0, containers |-> << >> ] }
    \cup
    { [ raised |-> FALSE, status |-> st, containers |-> cs ] :
        st \in RunStatuses, cs \in SeqsUpTo(RunContainers, MaxPosts) }

\* the instants at which a run reads the clock, in the order of time: here
\* the whole page is extracted at 2026-10-29T08:00:00 local time
Clock ==
    << [ epoch |-> 1793260800,
         iso   |-> << 50, 48, 50, 54, 45, 49, 48, 45, 50, 57, 84, 48, 56, 58,
                      48, 48, 58, 48, 48 >> ] >>

\* line 66 reads time.time() whenever the container has no data-id element
\* (the default of post.get is evaluated before the call).
ReadsEpoch(c) == c.data_id = NoElem

\* line 74 reads datetime.now() when the container has no time element.
ReadsIso(c) == c.time = NoElem

\* the sequences of n indices into 1..last that never decrease
RECURSIVE NonDecreasing(_, _)
NonDecreasing(n, last) ==
    IF n = 0 THEN { << >> }
    ELSE UNION { { Append(m, x) :
                      x \in (IF m = << >> THEN 1 ELSE m[Len(m)])..last } :
                   m \in NonDecreasing(n - 1, last) }

\* The clock as the extraction of the page cs reads it: for each container
\* in turn the reading of line 66, then that of line 74, each at an instant
\* not before the one before it; a reading that is not made is left 0 or "".
ClockReadings(cs, instants) ==
    { [ k \in 1..Len(cs) |->
          [ epoch |-> IF ReadsEpoch(cs[k])
                      THEN instants[m[2 * k - 1]].epoch ELSE 0,
            iso   |-> IF ReadsIso(cs[k])
                      THEN instants[m[2 * k]].iso ELSE << >> ] ] :
        m \in NonDecreasing(2 * Len(cs), Len(instants)) }

\* what a POST to the LINE API can give
SendOutcomes ==
    { [ raised |-> FALSE, status |-> 200 ],
      [ raised |-> FALSE, status |-> 500 ],
      [ raised |-> TRUE,  status |-> 0 ] }

\* (LINE_CHANNEL_TOKEN, LINE_USER_ID) of the environment: both set, the token
\* unset, the user id set to the empty string
Configs ==
    { << << 116 >>, << 117 >> >>, << None, << 117 >> >>, << << 116 >>, << >> >> }

\* what the cursor file holds before the first run: absent, "1", or the
\* byte C3 alone, which a save of an id beginning with a character of
\* U+00C0-U+00FF leaves when it is stopped after one byte
InitialFiles == { NoFile, << 49 >>, << 195 >> }

-----------------------------------------------------------------------------
(* The state machine. *)

Init ==
    /\ last_post_file \in InitialFiles
    /\ \E cfg \in Configs :
          /\ LINE_CHANNEL_TOKEN = cfg[1]
          /\ LINE_USER_ID = cfg[2]
    /\ pc = [ p \in Procs |-> "idle" ]
    /\ last_post_id = [ p \in Procs |-> << >> ]
    /\ posts = [ p \in Procs |-> << >> ]
    /\ new_posts = [ p \in Procs |-> << >> ]
    /\ newest_post_id = [ p \in Procs |-> << >> ]
    /\ results = [ p \in Procs |-> << >> ]
    /\ requests = [ p \in Procs |-> 0 ]
    /\ reads = [ p \in Procs |-> 0 ]
    /\ saves = [ p \in Procs |-> 0 ]
    /\ file_at_start = [ p \in Procs |-> NoFile ]
    /\ sends_at_save = [ p \in Procs |-> 0 ]
    /\ fetched = [ p \in Procs |-> NoFetch ]
    /\ reading = [ p \in Procs |-> NoRead ]
    /\ runs = 0
    /\ attempted = {}

\* lines 134 and 30: a run of main() begins and get_last_processed_id opens
\* the file; without file it returns "" (line 34).
LoadCursor(p) ==
    /\ pc[p] = "idle"
    /\ runs < MaxRuns
    /\ runs' = runs + 1
    /\ IF last_post_file = NoFile
       THEN /\ pc' = [ pc EXCEPT ![p] = "fetch" ]
            /\ last_post_id' = [ last_post_id EXCEPT ![p] =
                   get_last_processed_id(NoFile) ]
            /\ UNCHANGED reading
       ELSE /\ pc' = [ pc EXCEPT ![p] = "open" ]
            /\ UNCHANGED << reading, last_post_id >>
    /\ reads' = [ reads EXCEPT ![p] = 1 ]
    /\ file_at_start' = [ file_at_start EXCEPT ![p] = last_post_file ]
    /\ UNCHANGED << fetched, last_post_file, LINE_CHANNEL_TOKEN, LINE_USER_ID, posts,
                    new_posts, newest_post_id, results, requests, saves,
                    sends_at_save, attempted >>

\* line 31: f.read() begins: it measures the file, which may have changed
\* since the open, and allocates its buffer.
MeasureCursor(p) ==
    /\ pc[p] = "open"
    /\ pc' = [ pc EXCEPT ![p] = "load" ]
    /\ reading' = [ reading EXCEPT ![p] =
          [ bufsize |-> FirstBufsize(last_post_file), buffer |-> << >> ] ]
    /\ UNCHANGED << fetched, last_post_file, LINE_CHANNEL_TOKEN, LINE_USER_ID,
                    last_post_id, posts, new_posts, newest_post_id, results,
                    requests, reads, saves, file_at_start, sends_at_save, runs,
                    attempted >>

\* line 31: one read() call of f.read().  A call that returns bytes adds
\* them to the buffer; the call that returns none ends the read, and the
\* buffer is decoded and stripped: bytes that are not UTF-8 raise out of
\* main().  The file is not locked between the calls.
ReadCursor(p) ==
    /\ pc[p] = "load"
    /\ LET bufsize == Bufsize(reading[p].bufsize, reading[p].buffer)
           got == ReadCall(last_post_file, bufsize, reading[p].buffer)
           cursor == get_last_processed_id(reading[p].buffer)
       IN IF got # << >>
          THEN /\ reading' = [ reading EXCEPT ![p] =
                     [ bufsize |-> bufsize, buffer |-> reading[p].buffer \o got ] ]
               /\ UNCHANGED << pc, last_post_id >>
          ELSE /\ reading' = [ reading EXCEPT ![p] = NoRead ]
               /\ IF cursor = UnicodeDecodeError
                  THEN /\ pc' = [ pc EXCEPT ![p] = "crashed" ]
                       /\ UNCHANGED last_post_id
                  ELSE /\ pc' = [ pc EXCEPT ![p] = "fetch" ]
                       /\ last_post_id' = [ last_post_id EXCEPT ![p] = cursor ]
    /\ UNCHANGED << fetched, last_post_file, LINE_CHANNEL_TOKEN, LINE_USER_ID, posts,
                    new_posts, newest_post_id, results, requests, reads, saves,
                    file_at_start, sends_at_save, runs, attempted >>

\* lines 138-141: the fetch and the extraction, for a response of the set
\* Responses and a clock that passes through instants; main returns when
\* posts is empty.
FetchFrom(p, Responses, instants) ==
    /\ pc[p] = "fetch"
    /\ \E response \in Responses :
       \E nows \in ClockReadings(response.containers, instants) :
          LET got == get_trump_posts(response, nows)
          IN /\ posts' = [ posts EXCEPT ![p] = got ]
             /\ fetched' = [ fetched EXCEPT ![p] =
                    [ response |-> response, nows |-> nows ] ]
             /\ pc' = [ pc EXCEPT ![p] = AfterFetch(got) ]
    /\ UNCHANGED << reading, last_post_file, LINE_CHANNEL_TOKEN, LINE_USER_ID,
                    last_post_id, new_posts, newest_post_id, results, requests,
                    reads, saves, file_at_start, sends_at_save, runs, attempted >>

\* The fetch of a run.
Fetch(p) == FetchFrom(p, RunResponses, Clock)

\* line 146: the sort, which raises out of main() on a None timestamp.
Sort(p) ==
    /\ pc[p] = "sort"
    /\ IF SortRaises(posts[p])
       THEN /\ pc' = [ pc EXCEPT ![p] = "crashed" ]
            /\ UNCHANGED posts
       ELSE /\ posts' = [ posts EXCEPT ![p] = SortByTimestamp(posts[p]) ]
            /\ pc' = [ pc EXCEPT ![p] = "filter" ]
    /\ UNCHANGED << reading, fetched, last_post_file, LINE_CHANNEL_TOKEN, LINE_USER_ID, last_post_id,
                    new_posts, newest_post_id, results, requests, reads, saves,
                    file_at_start, sends_at_save, runs, attempted >>

\* lines 149-162 and 173-174: the filter loop and the test of new_posts.
FilterPosts(p) ==
    /\ pc[p] = "filter"
    /\ LET f == Filter(last_post_id[p], posts[p])
       IN /\ new_posts' = [ new_posts EXCEPT ![p] = f.new ]
          /\ newest_post_id' = [ newest_post_id EXCEPT ![p] = f.newest ]
          /\ pc' = [ pc EXCEPT ![p] = AfterFilter(f.new) ]
    /\ UNCHANGED << reading, fetched, last_post_file, LINE_CHANNEL_TOKEN, LINE_USER_ID, last_post_id,
                    posts, results, requests, reads, saves, file_at_start,
                    sends_at_save, runs, attempted >>

\* lines 165-168: one iteration of the delivery loop.
Deliver(p) ==
    /\ pc[p] = "deliver"
    /\ LET k == Len(results[p]) + 1
       IN /\ k <= Len(new_posts[p])
          /\ \E outcome \in SendOutcomes :
                LET ok == send_line_notification(LINE_CHANNEL_TOKEN,
                                                 LINE_USER_ID, outcome)
                IN /\ results' = [ results EXCEPT ![p] = Append(@, ok) ]
                   /\ pc' = [ pc EXCEPT ![p] = AfterSend(k, Len(new_posts[p]), ok) ]
          /\ requests' = [ requests EXCEPT ![p] =
                IF SendsRequest(LINE_CHANNEL_TOKEN, LINE_USER_ID) THEN @ + 1 ELSE @ ]
          /\ attempted' = attempted \cup { new_posts[p][k].id }
    /\ UNCHANGED << reading, fetched, last_post_file, LINE_CHANNEL_TOKEN, LINE_USER_ID, last_post_id,
                    posts, new_posts, newest_post_id, reads, saves, file_at_start,
                    sends_at_save, runs >>

\* Mutant of SaveOpen: the save is taken under a lock, so that a run waits
\* while another is between its open and its write.
SaveOpenExclusive(p) ==
    /\ pc[p] = "save"
    /\ \A q \in Procs \ { p } : pc[q] # "write"
    /\ last_post_file' = OpenForWrite(last_post_file)
    /\ saves' = [ saves EXCEPT ![p] = @ + 1 ]
    /\ sends_at_save' = [ sends_at_save EXCEPT ![p] = Len(results[p]) ]
    /\ pc' = [ pc EXCEPT ![p] = "write" ]
    /\ UNCHANGED << reading, fetched, LINE_CHANNEL_TOKEN, LINE_USER_ID, last_post_id, posts,
                    new_posts, newest_post_id, results, requests, reads,
                    file_at_start, runs, attempted >>

\* lines 171 and 38: save_last_processed_id is called and opens the file,
\* which truncates it.
SaveOpen(p) ==
    /\ pc[p] = "save"
    /\ last_post_file' = OpenForWrite(last_post_file)
    /\ saves' = [ saves EXCEPT ![p] = @ + 1 ]
    /\ sends_at_save' = [ sends_at_save EXCEPT ![p] = Len(results[p]) ]
    /\ pc' = [ pc EXCEPT ![p] = "write" ]
    /\ UNCHANGED << reading, fetched, LINE_CHANNEL_TOKEN, LINE_USER_ID, last_post_id, posts,
                    new_posts, newest_post_id, results, requests, reads,
                    file_at_start, runs, attempted >>

\* line 38: open raises (the file cannot be opened for writing); the
\* exception leaves main().
SaveOpenFails(p) ==
    /\ pc[p] = "save"
    /\ saves' = [ saves EXCEPT ![p] = @ + 1 ]
    /\ sends_at_save' = [ sends_at_save EXCEPT ![p] = Len(results[p]) ]
    /\ pc' = [ pc EXCEPT ![p] = "crashed" ]
    /\ UNCHANGED << reading, fetched, last_post_file, LINE_CHANNEL_TOKEN, LINE_USER_ID, last_post_id,
                    posts, new_posts, newest_post_id, results, requests, reads,
                    file_at_start, runs, attempted >>

\* line 39: the write and the close succeed, or the id cannot be encoded
\* and UnicodeEncodeError leaves main().
SaveWrite(p) ==
    /\ pc[p] = "write"
    /\ last_post_file' = WriteText(last_post_file, newest_post_id[p])
    /\ pc' = [ pc EXCEPT ![p] =
          IF Encode(newest_post_id[p]) = UnicodeEncodeError
          THEN "crashed" ELSE "done" ]
    /\ UNCHANGED << reading, fetched, LINE_CHANNEL_TOKEN, LINE_USER_ID, last_post_id, posts,
                    new_posts, newest_post_id, results, requests, reads, saves,
                    file_at_start, sends_at_save, runs, attempted >>

\* line 39: the write fails or the process is stopped during it; a proper
\* prefix of the text has reached the file.
SaveInterrupted(p) ==
    /\ pc[p] = "write"
    /\ \E part \in PartialWrites(newest_post_id[p]) :
          last_post_file' = WriteBytes(last_post_file, part)
    /\ pc' = [ pc EXCEPT ![p] = "crashed" ]
    /\ UNCHANGED << reading, fetched, LINE_CHANNEL_TOKEN, LINE_USER_ID, last_post_id, posts,
                    new_posts, newest_post_id, results, requests, reads, saves,
                    file_at_start, sends_at_save, runs, attempted >>

\* The process ends; nothing but the cursor file survives it.
Exit(p) ==
    /\ pc[p] \in { "done", "crashed" }
    /\ pc' = [ pc EXCEPT ![p] = "idle" ]
    /\ last_post_id' = [ last_post_id EXCEPT ![p] = << >> ]
    /\ posts' = [ posts EXCEPT ![p] = << >> ]
    /\ new_posts' = [ new_posts EXCEPT ![p] = << >> ]
    /\ newest_post_id' = [ newest_post_id EXCEPT ![p] = << >> ]
    /\ results' = [ results EXCEPT ![p] = << >> ]
    /\ requests' = [ requests EXCEPT ![p] = 0 ]
    /\ reads' = [ reads EXCEPT ![p] = 0 ]
    /\ saves' = [ saves EXCEPT ![p] = 0 ]
    /\ file_at_start' = [ file_at_start EXCEPT ![p] = NoFile ]
    /\ sends_at_save' = [ sends_at_save EXCEPT ![p] = 0 ]
    /\ fetched' = [ fetched EXCEPT ![p] = NoFetch ]
    /\ reading' = [ reading EXCEPT ![p] = NoRead ]
    /\ UNCHANGED << last_post_file, LINE_CHANNEL_TOKEN, LINE_USER_ID, runs, attempted >>

\* main(): the steps of one run, in program order.
main(p) ==
    \/ LoadCursor(p)
    \/ MeasureCursor(p)
    \/ ReadCursor(p)
    \/ Fetch(p)
    \/ Sort(p)
    \/ FilterPosts(p)
    \/ Deliver(p)
    \/ SaveOpen(p)
    \/ SaveOpenFails(p)
    \/ SaveWrite(p)
    \/ SaveInterrupted(p)
    \/ Exit(p)

\* Runs are started one after the other: a single process, run again and again.
Next == main(1)

Spec == Init /\ [][Next]_vars

\* The same runs when the cursor file can always be written and no run is
\* stopped from outside: every run reaches the end of main() or raises in it.
NextCompleting ==
    \/ LoadCursor(1)
    \/ MeasureCursor(1)
    \/ ReadCursor(1)
    \/ Fetch(1)
    \/ Sort(1)
    \/ FilterPosts(1)
    \/ Deliver(1)
    \/ SaveOpen(1)
    \/ SaveWrite(1)
    \/ Exit(1)

SpecCompleting == Init /\ [][NextCompleting]_vars

-----------------------------------------------------------------------------
(* The sort and the filter loop alone, on every cursor and every candidate  *)
(* collection of a bounded set: the run stands after the fetch (line 143)   *)
(* with the cursor it read and the posts it extracted.                      *)

MaxCandidates == 2      \* posts in one candidate collection

\* ids of the candidates: "", " 1", "1", "1 ", "10", "2", "9"
FilterIds ==
    { << >>, << 32, 49 >>, << 49 >>, << 49, 32 >>, << 49, 48 >>, << 50 >>, << 57 >> }

\* cursors, as get_last_processed_id returns them: stripped
FilterCursors == { Strip(i) : i \in FilterIds }

FilterCandidates ==
    { [ id |-> i, content |-> << 104 >>, timestamp |-> t, link |-> HttpPrefix ] :
        i \in FilterIds, t \in { << 49 >>, << 50 >> } }

InitFilter ==
    /\ \E c \in FilterCursors :
          /\ last_post_file = (IF c = << >> THEN NoFile ELSE Encode(c))
          /\ last_post_id = [ p \in Procs |-> IF p = 1 THEN c ELSE << >> ]
          /\ file_at_start = [ p \in Procs |-> IF p = 1 THEN last_post_file ELSE NoFile ]
    /\ posts \in [ Procs -> SeqsUpTo(FilterCandidates, MaxCandidates) ]
    /\ posts[1] # << >>
    /\ posts[2] = << >>
    /\ LINE_CHANNEL_TOKEN = << 116 >>
    /\ LINE_USER_ID = << 117 >>
    /\ pc = [ p \in Procs |-> IF p = 1 THEN "sort" ELSE "idle" ]
    /\ new_posts = [ p \in Procs |-> << >> ]
    /\ newest_post_id = [ p \in Procs |-> << >> ]
    /\ results = [ p \in Procs |-> << >> ]
    /\ requests = [ p \in Procs |-> 0 ]
    /\ reads = [ p \in Procs |-> IF p = 1 THEN 1 ELSE 0 ]
    /\ saves = [ p \in Procs |-> 0 ]
    /\ sends_at_save = [ p \in Procs |-> 0 ]
    /\ fetched = [ p \in Procs |-> NoFetch ]
    /\ reading = [ p \in Procs |-> NoRead ]
    /\ runs = 1
    /\ attempted = {}

NextFilter ==
    \/ Sort(1)
    \/ FilterPosts(1)

SpecFilter == InitFilter /\ [][NextFilter]_vars

-----------------------------------------------------------------------------
(* Vocabulary of the properties. *)

IdsOf(ps) == { ps[k].id : k \in 1..Len(ps) }

Records(ps) == { ps[k] : k \in 1..Len(ps) }

\* the greatest string of a non-empty set
MaxStr(S) == CHOOSE m \in S : \A x \in S : StrLeq(x, m)

\* The run of p has executed the filter loop: posts, new_posts and
\* newest_post_id are the loop's input and results.
Filtered(p) ==
    /\ pc[p] \in { "deliver", "save", "write", "done", "crashed" }
    /\ posts[p] # << >>
    /\ ~ SortRaises(posts[p])

\* The run of p has left the delivery loop.
Delivered(p) ==
    /\ Filtered(p)
    /\ new_posts[p] # << >>
    /\ pc[p] # "deliver"

\* The run of p has ended by reaching the end of main().
Completed(p) == pc[p] = "done"

\* The run of p has ended, by the end of main() or by an exception.
Ended(p) == pc[p] \in { "done", "crashed" }

-----------------------------------------------------------------------------
(* The properties. *)

\* C1 (as claimed): over serial runs that all complete, a record that had a
\* delivery attempt in an earlier run is never classified new, and so never
\* notified, again: when a run enters its delivery loop, none of the ids it
\* is about to notify has been attempted before.
C1_NotifiedExactlyOnce ==
    \A p \in Procs :
        (pc[p] = "deliver" /\ results[p] = << >>)
            => \A k \in 1..Len(new_posts[p]) : new_posts[p][k].id \notin attempted

\* C2 (as claimed): the new-set is exactly the candidates whose id is greater
\* than the cursor, for every cursor, the empty one included.
C2_NewSetIsGreaterThanCursor ==
    Filtered(1) =>
        Records(new_posts[1]) =
            { r \in Records(posts[1]) : StrGreater(r.id, last_post_id[1]) }

\* C2 (amended): the new-set is exactly the candidates r for which the cursor
\* is empty or r.id is greater than the cursor; with a non-empty cursor no
\* record with id <= cursor is in it and none with id > cursor is left out.
C2_NewSetIsEmptyCursorOrGreater ==
    Filtered(1) =>
        /\ Records(new_posts[1]) =
              { r \in Records(posts[1]) :
                    last_post_id[1] = << >> \/ StrGreater(r.id, last_post_id[1]) }
        /\ last_post_id[1] # << >> =>
              Records(new_posts[1]) =
                  { r \in Records(posts[1]) : StrGreater(r.id, last_post_id[1]) }

\* C2 witness: with cursor "1" the candidates "10" and "1" are split, "10" new
\* and "1" not.
C2_Witness ==
    /\ Filtered(1)
    /\ last_post_id[1] = << 49 >>
    /\ IdsOf(posts[1]) = { << 49 >>, << 49, 48 >> }
    /\ IdsOf(new_posts[1]) = { << 49, 48 >> }

\* C3 (as claimed): the updated cursor is >= the cursor, is the maximum of
\* the cursor and the new ids, and equals the cursor exactly when the
\* new-set is empty.
C3_CursorAdvance ==
    Filtered(1) =>
        /\ StrLeq(last_post_id[1], newest_post_id[1])
        /\ newest_post_id[1] = MaxStr({ last_post_id[1] } \cup IdsOf(new_posts[1]))
        /\ (newest_post_id[1] = last_post_id[1]) <=> (new_posts[1] = << >>)

\* C3 (amended): the updated cursor is >= the cursor and is the maximum of
\* the cursor and the new ids; it equals the cursor when the new-set is
\* empty, and when it equals the cursor the new-set is empty or the cursor is
\* empty and every new record has the empty id.
C3_CursorAdvanceAmended ==
    Filtered(1) =>
        /\ StrLeq(last_post_id[1], newest_post_id[1])
        /\ newest_post_id[1] = MaxStr({ last_post_id[1] } \cup IdsOf(new_posts[1]))
        /\ (new_posts[1] = << >>) => (newest_post_id[1] = last_post_id[1])
        /\ (newest_post_id[1] = last_post_id[1]) =>
              \/ new_posts[1] = << >>
              \/ last_post_id[1] = << >> /\ IdsOf(new_posts[1]) = { << >> }

\* C3 witness: from cursor "1" the new ids "9" and "10" advance the cursor to
\* "9", the greater string.
C3_Witness ==
    /\ Filtered(1)
    /\ last_post_id[1] = << 49 >>
    /\ IdsOf(new_posts[1]) = { << 57 >>, << 49, 48 >> }
    /\ newest_post_id[1] = << 57 >>

\* C4 (as claimed): the filter run again on the same candidates with the
\* cursor the first run produced finds nothing new.
C4_IdempotentRerun ==
    Filtered(1) => Filter(newest_post_id[1], posts[1]).new = << >>

\* C5: a run that read an empty or absent cursor file classifies every
\* candidate as new, its updated cursor is the greatest candidate id, and
\* that is what the cursor file holds when the run has completed.
C5_Bootstrap ==
    \A p \in Procs :
        (Filtered(p) /\ file_at_start[p] \in { NoFile, << >> }) =>
            /\ new_posts[p] = posts[p]
            /\ newest_post_id[p] = MaxStr(IdsOf(posts[p]))
            /\ Completed(p) => last_post_file = Encode(MaxStr(IdsOf(posts[p])))

\* C5 witness: a completed first run without cursor file, two candidates
\* "2" and "1 " in this order of timestamps, "2" persisted.
C5_Witness ==
    /\ Completed(1)
    /\ file_at_start[1] = NoFile
    /\ Len(posts[1]) = 2
    /\ posts[1][1].id = << 50 >>
    /\ posts[1][2].id = << 49, 32 >>
    /\ new_posts[1] = posts[1]
    /\ last_post_file = << 50 >>

\* C6: once a run with N new records has left the delivery loop, a send has
\* been made for each of the N records whatever the earlier sends returned;
\* a run that raised after a failed send raised in the save, not in the
\* loop; and a completed run has persisted the updated cursor, the maximum
\* of the cursor and all N ids.
C6_DeliveryIsolation ==
    \A p \in Procs :
        /\ (pc[p] = "deliver") => Len(results[p]) < Len(new_posts[p])
        /\ Delivered(p) =>
              /\ Len(results[p]) = Len(new_posts[p])
              /\ pc[p] = "crashed" => saves[p] = 1
              /\ Completed(p) =>
                    /\ last_post_file = Encode(newest_post_id[p])
                    /\ newest_post_id[p] =
                          MaxStr({ last_post_id[p] } \cup IdsOf(new_posts[p]))

\* C6 witness: a completed run of two new records whose first send failed
\* and whose second send succeeded, with the cursor persisted.
C6_Witness ==
    /\ Completed(1)
    /\ Len(new_posts[1]) = 2
    /\ results[1] = << FALSE, TRUE >>
    /\ last_post_file = Encode(newest_post_id[1])
    /\ newest_post_id[1] = new_posts[1][1].id
    /\ new_posts[1][1].id # new_posts[1][2].id

\* C7: a run calls the save at most once, only when the send of every new
\* record has returned, never while it is in the delivery loop (where the
\* cursor file still holds what the run read), and a completed run with new
\* records has called it exactly once.
C7_SingleWriteAfterDelivery ==
    \A p \in Procs :
        /\ saves[p] <= 1
        /\ saves[p] = 1 =>
              /\ new_posts[p] # << >>
              /\ sends_at_save[p] = Len(new_posts[p])
              /\ Len(results[p]) = Len(new_posts[p])
        /\ pc[p] \in { "deliver", "save" } =>
              /\ saves[p] = 0
              /\ last_post_file = file_at_start[p]
        /\ (Completed(p) /\ new_posts[p] # << >>) => saves[p] = 1

\* C7 witness: a completed run of two new records with mixed outcomes that
\* wrote the cursor once, after both sends.
C7_Witness ==
    /\ Completed(1)
    /\ Len(new_posts[1]) = 2
    /\ results[1] = << TRUE, FALSE >>
    /\ saves[1] = 1
    /\ sends_at_save[1] = 2
    /\ last_post_file # file_at_start[1]

\* Every candidate of the run of p has an id <= the cursor the run read
\* (true of a run without candidates: failed fetch, empty extraction).
AllAtOrBelowCursor(p) ==
    \A k \in 1..Len(posts[p]) : StrLeq(posts[p][k].id, last_post_id[p])

\* C8 (as claimed): a run reads the cursor once, and a run that has ended
\* and whose fetch failed, whose extraction was empty or whose candidates
\* all have an id <= cursor has made no send, no POST and no save, and the
\* cursor file is as the run found it.
C8_NoNewPostsNoWrite ==
    \A p \in Procs :
        /\ pc[p] # "idle" => reads[p] = 1
        /\ (Ended(p) /\ AllAtOrBelowCursor(p)) =>
              /\ results[p] = << >>
              /\ requests[p] = 0
              /\ saves[p] = 0
              /\ last_post_file = file_at_start[p]

\* C8 (amended): the same for a run whose fetch failed, whose extraction was
\* empty, or whose cursor is not empty and whose candidates all have an
\* id <= cursor.
C8_NoNewPostsNoWriteAmended ==
    \A p \in Procs :
        /\ pc[p] # "idle" => reads[p] = 1
        /\ ( /\ Ended(p)
             /\ AllAtOrBelowCursor(p)
             /\ posts[p] = << >> \/ last_post_id[p] # << >> ) =>
              /\ results[p] = << >>
              /\ requests[p] = 0
              /\ saves[p] = 0
              /\ last_post_file = file_at_start[p]

\* C8 witness: a completed run whose two candidates both have an id <= the
\* cursor "2" it read.
C8_Witness ==
    /\ Completed(1)
    /\ file_at_start[1] = << 50 >>
    /\ Len(posts[1]) = 2
    /\ new_posts[1] = << >>
    /\ last_post_file = << 50 >>

\* C9 (as claimed): when a run has ended, also by a failed or interrupted
\* save, the cursor file holds the complete updated cursor or still reads
\* as the cursor the run started from.
C9_NoPartialWrite ==
    \A p \in Procs :
        Ended(p) =>
            \/ last_post_file = file_at_start[p]
            \/ saves[p] = 1 /\ last_post_file = Encode(newest_post_id[p])
            \/ get_last_processed_id(last_post_file) =
                  get_last_processed_id(file_at_start[p])

\* C10: with the token or the user id absent (unset or empty), a run makes no POST and every
\* send returns False, yet every new record gets its send and a completed
\* run with new records has persisted the updated cursor.
C10_MissingConfig ==
    \A p \in Procs :
        (LINE_CHANNEL_TOKEN \in { None, << >> } \/ LINE_USER_ID \in { None, << >> }) =>
            /\ requests[p] = 0
            /\ \A k \in 1..Len(results[p]) : results[p][k] = FALSE
            /\ Delivered(p) => Len(results[p]) = Len(new_posts[p])
            /\ (Completed(p) /\ Filtered(p) /\ new_posts[p] # << >>) =>
                  /\ saves[p] = 1
                  /\ last_post_file = Encode(newest_post_id[p])

\* C10 witness: without token, a completed run of two new records: two
\* sends returned False, no POST, cursor advanced.
C10_Witness ==
    /\ LINE_CHANNEL_TOKEN = None
    /\ Completed(1)
    /\ Len(new_posts[1]) = 2
    /\ results[1] = << FALSE, FALSE >>
    /\ requests[1] = 0
    /\ last_post_file = Encode(newest_post_id[1])
    /\ last_post_file # file_at_start[1]

-----------------------------------------------------------------------------
(* Two invocations of main() at the same time on one cursor file: nothing   *)
(* in the program orders the steps of one against the steps of the other.   *)

\* ids on the pages of the two runs: "2", "23", one that is not ASCII,
\* U+00E9, whose text takes two bytes in the file, and a lone surrogate,
\* U+D800, which no write can encode
ConcurrentIds == { << 50 >>, << 50, 51 >>, << 233 >>, << 55296 >> }

\* pages the two runs can be served: a failed fetch, or a page that lists
\* each of its posts once, in the order of their ids, all with one timestamp
ConcurrentResponses ==
    { [ raised |-> TRUE, status |-> 0, containers |-> << >> ] }
    \cup
    { [ raised |-> FALSE, status |-> 200, containers |-> cs ] :
        cs \in { c \in SeqsUpTo({ [ data_id |-> i, own_id |-> None,
                                    content |-> << 104 >>, time |-> << 49 >>,
                                    link |-> HttpPrefix ] :
                                    i \in ConcurrentIds }, MaxPosts) :
                    \A j, k \in 1..Len(c) :
                        j < k => StrLess(c[j].data_id, c[k].data_id) } }

NextConcurrent ==
    \E p \in Procs :
        \/ LoadCursor(p)
        \/ MeasureCursor(p)
        \/ ReadCursor(p)
        \/ FetchFrom(p, ConcurrentResponses, Clock)
        \/ Sort(p)
        \/ FilterPosts(p)
        \/ Deliver(p)
        \/ SaveOpen(p)
        \/ SaveWrite(p)

SpecConcurrent == Init /\ [][NextConcurrent]_vars

\* the steps of one of the two runs after its start
ConcurrentSteps(p) ==
    \/ MeasureCursor(p)
    \/ ReadCursor(p)
    \/ FetchFrom(p, ConcurrentResponses, Clock)
    \/ Sort(p)
    \/ FilterPosts(p)
    \/ Deliver(p)
    \/ SaveOpen(p)
    \/ SaveWrite(p)

\* Both runs have reached the end of main() after saving a cursor.
BothSaved ==
    \A p \in Procs : Completed(p) /\ saves[p] = 1

\* the bytes a are the first bytes of b
IsPrefix(a, b) == Len(a) <= Len(b) /\ SubSeq(b, 1, Len(a)) = a

\* C11: two concurrent runs are not excluded from one another and their
\* cursors are not merged: whatever the other run is doing, a run that has
\* not begun can begin and a run that has not ended has its next step; a
\* write puts the writer's own newest_post_id into the file from its first
\* byte on, without a look at what the file holds; and when both have saved
\* the file begins with the value one of them wrote.
C11_NoMutualExclusion ==
    /\ [](\A p \in Procs :
            /\ pc[p] = "idle" => ENABLED LoadCursor(p)
            /\ pc[p] \notin { "idle", "done", "crashed" } =>
                  ENABLED ConcurrentSteps(p))
    /\ [](BothSaved =>
            \E p \in Procs : IsPrefix(Encode(newest_post_id[p]), last_post_file))
    /\ [][\A p \in Procs :
            (pc[p] = "write" /\ pc'[p] = "done") =>
                last_post_file' =
                    WriteBytes(last_post_file, Encode(newest_post_id[p]))]_vars

\* C11 witness, the interleaving the claim describes: both runs read the
\* same cursor, both attempted delivery of the same record, both saved, and
\* the cursor the next run would load is the value of the run that wrote
\* last, lower than the value the other run wrote.
C11_Witness ==
    /\ BothSaved
    /\ last_post_id[1] = last_post_id[2]
    /\ file_at_start[1] = file_at_start[2]
    /\ IdsOf(new_posts[1]) \cap IdsOf(new_posts[2]) # {}
    /\ results[1] # << >> /\ results[2] # << >>
    /\ get_last_processed_id(last_post_file) = newest_post_id[1]
    /\ last_post_file = Encode(newest_post_id[1])
    /\ StrLess(newest_post_id[1], newest_post_id[2])

-----------------------------------------------------------------------------
(* The fetch. *)

\* get_trump_posts has just returned to the run of p: posts[p] is its value.
Returned(p) ==
    /\ fetched[p] # NoFetch
    /\ \/ pc[p] = "sort"
       \/ pc[p] = "done" /\ posts[p] = << >>

\* The run of p has ended at line 141 and has left the cursor file alone.
EndedUntouched(p) ==
    /\ pc[p] = "done"
    /\ posts[p] = << >>
    /\ results[p] = << >>
    /\ saves[p] = 0
    /\ last_post_file = file_at_start[p]

\* C12 (as claimed): with any status 2xx the page goes to the extraction,
\* whose records get_trump_posts returns; with any other status, or when the
\* fetch raises, get_trump_posts returns [] and the run ends with the cursor
\* untouched.
C12_FetchSuccessIs2xx ==
    \A p \in Procs :
        Returned(p) =>
            LET r == fetched[p].response
            IN IF ~ r.raised /\ r.status \in 200..299
               THEN posts[p] = ExtractAll(r.containers, fetched[p].nows)
               ELSE EndedUntouched(p)

\* C12, the failing case: a response 203 whose page holds two posts is a soft failure:
\* the run has ended without posts and the cursor file "2" is as it was.
C12_Witness ==
    /\ Returned(1)
    /\ fetched[1].response.status = 203
    /\ Len(ExtractAll(fetched[1].response.containers, fetched[1].nows)) = 2
    /\ EndedUntouched(1)
    /\ last_post_file = << 50 >>

-----------------------------------------------------------------------------
(* Termination.  main() is straight-line, synchronous code: once a run has  *)
(* begun, its next statement is executed, and the requests it makes return  *)
(* or raise.  A run therefore ends if it always has a next step and every   *)
(* step brings it nearer to its end.                                        *)

\* the steps of a run after its start
RunSteps(p) ==
    \/ MeasureCursor(p)
    \/ ReadCursor(p)
    \/ Fetch(p)
    \/ Sort(p)
    \/ FilterPosts(p)
    \/ Deliver(p)
    \/ SaveOpen(p)
    \/ SaveOpenFails(p)
    \/ SaveWrite(p)
    \/ SaveInterrupted(p)

\* The run of p has begun and has not ended.
Running(p) == pc[p] \notin { "idle", "done", "crashed" }

\* the statements of main() that a position still has before it, in program
\* order
Phase(at) ==
    CASE at = "open"    -> 8
      [] at = "load"    -> 7
      [] at = "fetch"   -> 6
      [] at = "sort"    -> 5
      [] at = "filter"  -> 4
      [] at = "deliver" -> 3
      [] at = "save"    -> 2
      [] at = "write"   -> 1
      [] OTHER          -> 0

\* the sends the delivery loop of p still has to make
SendsLeft(p) == Len(new_posts[p]) - Len(results[p])

\* the bytes of the file the f.read() of p has not read yet
BytesLeft(p) == Len(last_post_file) - Len(reading[p].buffer)

\* C13: every run ends, whatever it fetched and whatever the sends gave: a
\* run that has not ended always has a next step, every step moves it
\* forward in main(), reads bytes of the cursor file not read yet, or makes
\* one of the sends still to be made (so it never fetches again and never
\* repeats a send), it makes at most one send per new
\* record and calls the save at most once.
C13_RunTerminates ==
    /\ [](\A p \in Procs :
            /\ Len(results[p]) <= Len(new_posts[p])
            /\ saves[p] <= 1
            /\ Running(p) => ENABLED RunSteps(p))
    /\ [][\A p \in Procs :
            (Running(p) /\ pc'[p] # "idle") =>
                \/ Phase(pc'[p]) < Phase(pc[p])
                \/ /\ pc[p] = "load" /\ pc'[p] = "load"
                   /\ BytesLeft(p)' < BytesLeft(p)
                   /\ BytesLeft(p)' >= 0
                \/ /\ pc[p] = "deliver" /\ pc'[p] = "deliver"
                   /\ SendsLeft(p)' < SendsLeft(p)
                   /\ SendsLeft(p)' >= 0]_vars

\* C13 witness: a run has reached the end of main() after one fetch, a send
\* for each of its two new records, one of them failed, and one save.
C13_Witness ==
    /\ Completed(1)
    /\ fetched[1] # NoFetch
    /\ Len(new_posts[1]) = 2
    /\ Len(results[1]) = 2
    /\ FALSE \in { results[1][k] : k \in 1..2 }
    /\ saves[1] = 1

-----------------------------------------------------------------------------
(* The order of the phases of a run.  The positions of the model stand for  *)
(* the states of a run: "idle" before line 134 and after the process ended  *)
(* ("done", "crashed"), "open" once the cursor file is open, "load" while   *)
(* it is read, "fetch" once the cursor is loaded, "sort" once the page is   *)
(* fetched and extracted, "filter" at the filter loop, "deliver" in the     *)
(* delivery loop, "save" and "write" in the save of the cursor.             *)

\* C14: a run changes position only forward in the order of main(): it opens
\* the cursor file only from idle and reads it only once it is open, it is
\* at the fetch only from the read (or
\* from idle when there is no file) and with the cursor read from the file, at the
\* sort only from the fetch, at the filter loop only from the sort, in the
\* delivery loop only from the filter loop and with a non-empty new_posts, at
\* the save only from the delivery loop and with every send made, it ends
\* without delivery when the filter loop found nothing new, and it never
\* returns to a position it has left.
C14_PhaseOrder ==
    [][\A p \in Procs :
        LET from == pc[p]
            to == pc'[p]
        IN from # to =>
             /\ to = "open" => from = "idle"
             /\ to = "load" => from = "open"
             /\ to = "fetch" =>
                   /\ from \in { "idle", "load" }
                   /\ reads'[p] = 1
                   /\ last_post_id'[p] = get_last_processed_id(last_post_file)
                   /\ fetched'[p] = NoFetch
             /\ to = "sort" => from = "fetch" /\ fetched'[p] # NoFetch
             /\ to = "filter" => from = "sort"
             /\ to = "deliver" => from = "filter" /\ new_posts'[p] # << >>
             /\ to = "save" =>
                   /\ from = "deliver"
                   /\ new_posts[p] # << >>
                   /\ Len(results'[p]) = Len(new_posts[p])
             /\ to = "write" => from = "save"
             /\ (from = "filter" /\ new_posts'[p] = << >>) =>
                   to = "done" /\ results'[p] = << >> /\ saves'[p] = 0
             /\ to = "idle" => from \in { "done", "crashed" }
             /\ (Running(p) /\ to # "idle") => Phase(to) < Phase(from)]_vars

\* C14 witness: the second run of a behaviour has loaded the cursor, fetched,
\* filtered, made the send of its one new record and is in the save.
C14_Witness ==
    /\ runs = 2
    /\ pc[1] = "write"
    /\ reads[1] = 1
    /\ fetched[1] # NoFetch
    /\ Len(new_posts[1]) = 1
    /\ Len(results[1]) = 1

-----------------------------------------------------------------------------
(* The sort and the filter loop on two candidate collections side by side:  *)
(* two runs stand after the fetch with the same cursor, the second with a   *)
(* collection that is a permutation of the first's, or the first's with     *)
(* other timestamps.  Timestamps are as the extraction gives them: a        *)
(* datetime attribute, or None.                                             *)

\* ids of the candidates: "", "1" and "2"
OrderIds == { << >>, << 49 >>, << 50 >> }

\* cursors: none, or "1"
OrderCursors == { << >>, << 49 >> }

OrderCandidates ==
    { [ id |-> i, content |-> << 104 >>, timestamp |-> t, link |-> HttpPrefix ] :
        i \in OrderIds, t \in RunTimes }

\* how often record r occurs in ps
Occurrences(ps, r) == Cardinality({ k \in 1..Len(ps) : ps[k] = r })

IsPermutation(a, b) ==
    /\ Len(a) = Len(b)
    /\ \A r \in Records(a) \cup Records(b) : Occurrences(a, r) = Occurrences(b, r)

\* a record without its timestamp
Untimed(r) == [ id |-> r.id, content |-> r.content, link |-> r.link ]

DiffersOnlyInTimestamps(a, b) ==
    /\ Len(a) = Len(b)
    /\ \A k \in 1..Len(a) : Untimed(a[k]) = Untimed(b[k])

InitOrder ==
    /\ \E c \in OrderCursors :
          /\ last_post_file = (IF c = << >> THEN NoFile ELSE Encode(c))
          /\ last_post_id = [ p \in Procs |-> c ]
          /\ file_at_start = [ p \in Procs |-> last_post_file ]
    /\ \E a \in SeqsUpTo(OrderCandidates, MaxCandidates) \ { << >> } :
          \E b \in SeqsUpTo(OrderCandidates, Len(a)) :
             /\ IsPermutation(a, b) \/ DiffersOnlyInTimestamps(a, b)
             /\ posts = [ p \in Procs |-> IF p = 1 THEN a ELSE b ]
    /\ LINE_CHANNEL_TOKEN = << 116 >>
    /\ LINE_USER_ID = << 117 >>
    /\ pc = [ p \in Procs |-> "sort" ]
    /\ new_posts = [ p \in Procs |-> << >> ]
    /\ newest_post_id = [ p \in Procs |-> << >> ]
    /\ results = [ p \in Procs |-> << >> ]
    /\ requests = [ p \in Procs |-> 0 ]
    /\ reads = [ p \in Procs |-> 1 ]
    /\ saves = [ p \in Procs |-> 0 ]
    /\ sends_at_save = [ p \in Procs |-> 0 ]
    /\ fetched = [ p \in Procs |-> NoFetch ]
    /\ reading = [ p \in Procs |-> NoRead ]
    /\ runs = 2
    /\ attempted = {}

NextOrder == \E p \in Procs : Sort(p) \/ FilterPosts(p)

SpecOrder == InitOrder /\ [][NextOrder]_vars

\* The run of p is past lines 146-162, or the sort raised.
Evaluated(p) == pc[p] \in { "deliver", "done", "crashed" }

\* the records classified new, apart from their timestamps
Selected(p) == { Untimed(new_posts[p][k]) : k \in 1..Len(new_posts[p]) }

\* C15: the timestamp sort affects only the order of the notifications: two
\* runs with the same cursor whose candidate collections are permutations of
\* each other, or differ only in timestamps, classify the same records as new
\* and compute the same updated cursor.
C15_SortAffectsOnlyOrder ==
    (\A p \in Procs : Evaluated(p)) =>
        /\ pc[1] = "crashed" <=> pc[2] = "crashed"
        /\ Selected(1) = Selected(2)
        /\ newest_post_id[1] = newest_post_id[2]

\* C15 witness: both runs have evaluated collections of two records with
\* different ids, in different orders, and classified both records new.
C15_Witness ==
    /\ \A p \in Procs : Evaluated(p) /\ Len(new_posts[p]) = 2
    /\ new_posts[1][1].id # new_posts[1][2].id
    /\ new_posts[1] # new_posts[2]
    /\ new_posts[1][1] = new_posts[2][2]

-----------------------------------------------------------------------------
(* The order of the sends. *)

\* the records of the page of p's run, in document order
Extracted(p) == ExtractAll(fetched[p].response.containers, fetched[p].nows)

\* the records p's delivery loop has passed to send_line_notification so far,
\* in the order of the calls
Sent(p) == SubSeq(new_posts[p], 1, Len(results[p]))

\* sent takes its records from doc in ascending order of timestamp, and
\* records of equal timestamp in the order they have in doc.
InTimestampOrder(sent, doc) ==
    \E at \in [1..Len(sent) -> 1..Len(doc)] :
        /\ \A k \in 1..Len(sent) : sent[k] = doc[at[k]]
        /\ \A j, k \in 1..Len(sent) :
              j < k =>
                 \/ StrLess(sent[j].timestamp, sent[k].timestamp)
                 \/ /\ sent[j].timestamp = sent[k].timestamp
                    /\ at[j] < at[k]

\* C16: within a run the sends are made in ascending order of timestamp
\* (string comparison), and the records of equal timestamp are sent in the
\* order the extraction returned them (document order).
C16_DeliveryOrder ==
    \A p \in Procs :
        (Filtered(p) /\ fetched[p] # NoFetch) =>
            /\ IdsOf(Sent(p)) \subseteq attempted
            /\ InTimestampOrder(Sent(p), Extracted(p))

\* C16 witness: the page listed the later record first, and the run has sent
\* both records, the earlier one first.
C16_Witness ==
    /\ pc[1] = "save"
    /\ Len(Extracted(1)) = 2
    /\ StrLess(Extracted(1)[2].timestamp, Extracted(1)[1].timestamp)
    /\ Sent(1) = << Extracted(1)[2], Extracted(1)[1] >>

-----------------------------------------------------------------------------
(* The extraction alone: a run fetches a page of up to MaxContainers        *)
(* containers, well-formed and malformed ones at every position.            *)

MaxContainers == 4      \* post containers in one page of the extraction

\* containers of a page: one with every element, its text between a
\* no-break space and an ideographic space, one with no element at all
\* (every field takes its default), one whose link element has no href, and
\* one with no element but such a link
ExtractContainers ==
    { [ data_id |-> << 50 >>, own_id |-> None, content |-> << 160, 104, 12288 >>,
        time |-> << 49 >>, link |-> << 47, 50 >> ],
      [ data_id |-> NoElem, own_id |-> None, content |-> NoElem,
        time |-> NoElem, link |-> NoElem ],
      [ data_id |-> << 49 >>, own_id |-> None, content |-> << 104 >>,
        time |-> << 50 >>, link |-> None ],
      [ data_id |-> NoElem, own_id |-> << 57 >>, content |-> NoElem,
        time |-> NoElem, link |-> None ] }

\* three instants of the extraction of one page: 08:00:00 sharp, 33
\* microseconds later, and one second later
ExtractClock ==
    << [ epoch |-> 1793260800,
         iso   |-> << 50, 48, 50, 54, 45, 49, 48, 45, 50, 57, 84, 48, 56, 58,
                      48, 48, 58, 48, 48 >> ],
       [ epoch |-> 1793260800,
         iso   |-> << 50, 48, 50, 54, 45, 49, 48, 45, 50, 57, 84, 48, 56, 58,
                      48, 48, 58, 48, 48, 46, 48, 48, 48, 48, 51, 51 >> ],
       [ epoch |-> 1793260801,
         iso   |-> << 50, 48, 50, 54, 45, 49, 48, 45, 50, 57, 84, 48, 56, 58,
                      48, 48, 58, 48, 49 >> ] >>

ExtractResponses ==
    { [ raised |-> FALSE, status |-> 200, containers |-> cs ] :
        cs \in SeqsUpTo(ExtractContainers, MaxContainers) }

NextExtract ==
    \/ LoadCursor(1)
    \/ MeasureCursor(1)
    \/ ReadCursor(1)
    \/ FetchFrom(1, ExtractResponses, ExtractClock)

SpecExtract == Init /\ [][NextExtract]_vars

\* the positions of the containers of cs whose extraction does not raise
WellFormed(cs) == { k \in 1..Len(cs) : ~ ExtractionRaises(cs[k]) }

\* C17: get_trump_posts returns one record for each container whose
\* extraction does not raise, in document order, and none for a container
\* whose extraction raises, wherever those stand on the page: N well-formed
\* containers give exactly N records.
C17_ExtractionResilience ==
    \A p \in Procs :
        (Returned(p) /\ ~ fetched[p].response.raised
                     /\ FetchOk(fetched[p].response.status)) =>
            LET cs == fetched[p].response.containers
                nows == fetched[p].nows
                N == Cardinality(WellFormed(cs))
            IN /\ Len(posts[p]) = N
               /\ \E at \in [1..N -> WellFormed(cs)] :
                     /\ \A j, k \in 1..N : j < k => at[j] < at[k]
                     /\ \A k \in 1..N : posts[p][k] = ExtractPost(cs[at[k]], nows[at[k]])

\* C17 witness: a page of four containers, the first and the third with a
\* link that has no href, has given the records of the second and the fourth.
C17_Witness ==
    /\ Returned(1)
    /\ Len(fetched[1].response.containers) = 4
    /\ WellFormed(fetched[1].response.containers) = { 2, 4 }
    /\ Len(posts[1]) = 2
    /\ posts[1][1] # posts[1][2]

-----------------------------------------------------------------------------
(* The persisted cursor over serial runs.  The persisted cursor is what the *)
(* next run would load: get_last_processed_id of the file.  A run begins    *)
(* with the cursor persisted by the runs before it (last_post_id), so the   *)
(* cursor is the maximum over all runs when each completed run leaves the   *)
(* maximum of the cursor it began with and the ids it extracted.            *)

\* the cursor the next run would load
PersistedCursor == get_last_processed_id(last_post_file)

\* the ids of the candidate records get_trump_posts returned to the run of p
CandidateIds(p) == IdsOf(get_trump_posts(fetched[p].response, fetched[p].nows))

\* C18: after each completed run the persisted cursor is the maximum (string
\* comparison) of the cursor persisted before the run (the initial cursor,
\* for the first run) and the ids of the candidates the run extracted; so it
\* never decreases from one run to the next.
C18_CursorIsMaximum ==
    \A p \in Procs :
        (Completed(p) /\ fetched[p] # NoFetch) =>
            PersistedCursor = MaxStr({ last_post_id[p] } \cup CandidateIds(p))

\* C18 witness: the second run of a behaviour began with the cursor "1 " of
\* the first, found "1 " and "2" on the page and has completed with "2"
\* persisted.
C18_Witness ==
    /\ runs = 2
    /\ Completed(1)
    /\ file_at_start[1] = << 49, 32 >>
    /\ CandidateIds(1) = { << 49, 32 >>, << 50 >> }
    /\ saves[1] = 1
    /\ PersistedCursor = << 50 >>

-----------------------------------------------------------------------------
(* The round trip of the cursor through the file. *)

\* The run of p has called save_last_processed_id(newest_post_id) and
\* reached the end of main().
Saved(p) == Completed(p) /\ saves[p] = 1

\* C19: the cursor the next run loads is the id the run persisted, whatever
\* white space the id begins or ends with, and the record of that id is not
\* new to the next run.
C19_CursorRoundTrip ==
    \A p \in Procs :
        Saved(p) =>
            /\ PersistedCursor = newest_post_id[p]
            /\ ~ IsNew(PersistedCursor, newest_post_id[p])

\* C19 witness: a run has persisted the id "2" of its one new record, and
\* the next run would load "2".
C19_Witness ==
    /\ Saved(1)
    /\ IdsOf(new_posts[1]) = { << 50 >> }
    /\ last_post_file = << 50 >>
    /\ PersistedCursor = << 50 >>

-----------------------------------------------------------------------------
(* The fields of the extracted records: a run fetches a page whose          *)
(* containers show every combination of elements present, absent, and       *)
(* present without the attribute that is read, then sorts and filters.      *)

\* what the id lookups of lines 62-66 can find: an element with data-id, no
\* such element but an id attribute on the container, or neither
IdElements ==
    { [ data_id |-> << 50 >>, own_id |-> None ],
      [ data_id |-> NoElem, own_id |-> << 49 >> ],
      [ data_id |-> NoElem, own_id |-> None ] }

\* content element: present or absent
ContentElements == { << 104 >>, NoElem }

\* time element: with datetime, without datetime, absent
TimeElements == { << 49 >>, None, NoElem }

\* link element: with href, without href, absent
LinkElements == { << 47, 50 >>, None, NoElem }

AllContainers ==
    { [ data_id |-> i.data_id, own_id |-> i.own_id, content |-> c,
        time |-> t, link |-> l ] :
        i \in IdElements, c \in ContentElements, t \in TimeElements,
        l \in LinkElements }

RecordResponses ==
    { [ raised |-> FALSE, status |-> 200, containers |-> cs ] :
        cs \in SeqsUpTo(AllContainers, MaxPosts) }

NextRecords ==
    \/ LoadCursor(1)
    \/ MeasureCursor(1)
    \/ ReadCursor(1)
    \/ FetchFrom(1, RecordResponses, ExtractClock)
    \/ Sort(1)
    \/ FilterPosts(1)

SpecRecords == Init /\ [][NextRecords]_vars

\* a value of type str
IsString(x) == x \notin { None, NoElem, NoFile }

\* C20: every record get_trump_posts returns has a string for id, content,
\* timestamp and link, whatever elements and attributes its container has,
\* and so neither the sort of line 146 nor the comparisons of the filter loop
\* raise on the records of a page.
C20_RecordFieldsAreStrings ==
    \A p \in Procs :
        /\ \A k \in 1..Len(posts[p]) :
              /\ IsString(posts[p][k].id)
              /\ IsString(posts[p][k].content)
              /\ IsString(posts[p][k].timestamp)
              /\ IsString(posts[p][k].link)
        /\ (pc[p] = "crashed") => saves[p] > 0

\* C20 witness: a page of two containers without any element has given two
\* records of defaults, all strings, and the run has sorted and filtered
\* them.
C20_Witness ==
    /\ pc[1] = "deliver"
    /\ Len(fetched[1].response.containers) = 2
    /\ \A k \in 1..2 :
          /\ fetched[1].response.containers[k].data_id = NoElem
          /\ fetched[1].response.containers[k].own_id = None
          /\ fetched[1].response.containers[k].content = NoElem
          /\ fetched[1].response.containers[k].time = NoElem
          /\ fetched[1].response.containers[k].link = NoElem
    /\ Len(posts[1]) = 2
    /\ \A k \in 1..2 : IsString(posts[1][k].timestamp)

====
